---- MODULE Spec2Model ----
(***************************************************************************)
(* Concurrency-control core of AgrisaleWS:                                 *)
(*   - the optimistic-concurrency stock protocol of the product and the    *)
(*     purchase / sale / return routers (specification Spec);              *)
(*   - the SQLite connection pool of server/database.py (specification     *)
(*     PoolSpec).                                                          *)
(* Request handlers interleave at the granularity of one SQL statement     *)
(* outside a write transaction; a write transaction holds the single       *)
(* SQLite write lock from its first INSERT/UPDATE/DELETE to its commit or  *)
(* rollback, and its writes are invisible to other connections until the   *)
(* commit.                                                                 *)
(***************************************************************************)
EXTENDS Integers, Sequences, FiniteSets, TLC

\* ------------------------------------------------------------------ bounds
MaxOps == 2            \* requests started after the initial state
MaxRows == 2           \* ledger rows ever inserted (AUTOINCREMENT ids)
MaxTotalChanges == 1   \* saturation of sqlite3 total_changes
NumProcs == 2          \* concurrent request handlers
MaxPoolOps == 3        \* acquire calls started in one pool behaviour
NumThreads == 3        \* threads using the pool
MaxConnections == 2    \* max_connections the pool is built with
TimeoutPolls == 2      \* empty polls until elapsed >= self.timeout
PreWarm == 3           \* connections _initialize_pool creates at most
NumCallers == 2        \* concurrent callers of execute_with_retry
MaxAttempts == 4       \* largest retry_attempts a caller passes

\* ------------------------------------------------------- the data universe
Prods == {"A", "B"}
NoProd == "none"
NoQty == 0
NoVer == 0
Users == {1, 2}
Procs == 1..NumProcs
Conns == 1..NumProcs
RowIds == 1..MaxRows
Kinds == {"purchase", "sale", "return"}
Qtys == {1, 2}

\* request scope: the authenticated user and whether X-Workspace-ID is sent
Scopes == {[user |-> 1, ws |-> TRUE], [user |-> 1, ws |-> FALSE]}

\* products.userId of the two products (both belong to the one workspace)
ProdOwner == [p \in Prods |-> IF p = "A" THEN 1 ELSE 2]

NoRow == [kind |-> "none", prod |-> NoProd, qty |-> 0, user |-> 0, ws |-> FALSE]

VARIABLES
  db,            \* committed database: products and ledger rows
  tx,            \* uncommitted state of the open write transaction
  lock,          \* handler holding the SQLite write lock, 0 when free
  totalChanges,  \* sqlite3 Connection.total_changes of every pooled connection
  h,             \* per handler: position, request and local variables
  nops,          \* requests started so far
  pool,          \* idle queue of the connection pool
  active,        \* SQLiteConnectionPool._active_connections
  totalCreated,  \* _stats['total_connections']
  th,            \* per pool thread: position and held connection
  npool,         \* acquire calls started so far
  probeFailed,   \* connections whose SELECT 1 probe failed in a release
  txnOpen,       \* connections with an open, uncommitted transaction
  rt,            \* per caller of execute_with_retry: position and locals
  retryCount,    \* _stats['retry_count']
  nested         \* per request: the connection held around a nested get_connection

invVars == <<db, tx, lock, totalChanges, h, nops>>
poolVars == <<pool, active, totalCreated, th, npool, probeFailed, txnOpen>>
retryVars == <<rt, retryCount>>
nestVars == <<nested>>
vars == <<db, tx, lock, totalChanges, h, nops, pool, active, totalCreated, th, npool,
         probeFailed, txnOpen, rt, retryCount, nested>>


\* ------------------------------------------------------------ the database
\* effect of a ledger row's quantity on stock: purchases and returns add,
\* sales subtract
Sign(kind) == IF kind = "sale" THEN -1 ELSE 1

\* SELECT id, stock, version FROM products WHERE workspaceId = ? AND name = ?
\* (or WHERE userId = ? AND name = ? without X-Workspace-ID)
ProdByName(d, n, sc) ==
  IF n \in Prods /\ d.present[n] /\ (sc.ws \/ ProdOwner[n] = sc.user)
  THEN n ELSE NoProd

\* SELECT ... FROM purchases|sales|returns WHERE id = ? AND workspaceId = ?
\* (or AND userId = ?)
RowVisible(d, id, kind, sc) ==
  /\ d.rows[id].kind = kind
  /\ IF sc.ws THEN d.rows[id].ws ELSE d.rows[id].user = sc.user

\* rows matched by UPDATE products ... WHERE id = ? AND workspaceId = ? AND
\* version = ? (wsAware) or WHERE id = ? AND userId = ? AND version = ?
GateMatches(d, pid, v, sc, wsAware) ==
  /\ pid \in Prods
  /\ d.present[pid]
  /\ d.version[pid] = v
  /\ IF wsAware /\ sc.ws THEN TRUE ELSE ProdOwner[pid] = sc.user

\* a stock write that forgets the version column
ApplyStockNoVersion(d, pid, s) ==
  [d EXCEPT !.stock[pid] = s]

\* SET stock = ?, version = version + 1
ApplyStock(d, pid, s) ==
  [d EXCEPT !.stock[pid] = s, !.version[pid] = @ + 1]

\* result of running a handler's statements from its first INSERT / UPDATE /
\* DELETE on: dml = a write statement was reached, res = "ok" when the
\* handler goes on to commit, db = the transaction's state at that point,
\* nchg = rows changed, gated / zero = a version-gated UPDATE was executed /
\* one of them matched no row, busy = the outcome when the first write
\* statement raises "database is locked"
TxR(dml, res, d, n, gated, zero, busy) ==
  [dml |-> dml, res |-> res, db |-> d, nchg |-> n, gated |-> gated,
   zero |-> zero, busy |-> busy]

TxCreate(r, d) ==
  LET d1 == [d EXCEPT !.rows[d.nextId] =
                         [kind |-> r.kind, prod |-> r.argProd, qty |-> r.argQty,
                          user |-> r.sc.user, ws |-> r.sc.ws],
                      !.nextId = @ + 1]
      new_stock == r.pstock + Sign(r.kind) * r.argQty
  IN IF r.kind # "return" /\ new_stock < 0
     THEN TxR(TRUE, "insufficient", d1, 1, FALSE, FALSE, "error500")
     ELSE IF ~GateMatches(d1, r.pid, r.pver, r.sc, TRUE)
     THEN TxR(TRUE, "conflict", d1, 1, TRUE, TRUE, "error500")
     ELSE TxR(TRUE, "ok", ApplyStock(d1, r.pid, new_stock), 2, TRUE, FALSE,
              "error500")

ProductChanged(r) == r.argProd # NoProd /\ r.argProd # r.rowProd
NewQuantity(r) == IF r.argQty # NoQty THEN r.argQty ELSE r.rowQty
\* purchases, returns: new - old; sales: old - new
QuantityDiff(r) == Sign(r.kind) * (NewQuantity(r) - r.rowQty)

TxUpdate(r, d) ==
  LET rowHit == RowVisible(d, r.rowId, r.kind, r.sc)
      d1 == IF rowHit
            THEN [d EXCEPT !.rows[r.rowId].prod =
                              IF r.argProd # NoProd THEN r.argProd ELSE @,
                           !.rows[r.rowId].qty =
                              IF r.argQty # NoQty THEN r.argQty ELSE @]
            ELSE d
      n1 == IF rowHit THEN 1 ELSE 0
      changed == ProductChanged(r)
      old == IF changed THEN ProdByName(d1, r.rowProd, r.sc) ELSE NoProd
      rev == old # NoProd
      old_new_stock == IF rev THEN d1.stock[old] - Sign(r.kind) * r.rowQty ELSE 0
      d2 == IF rev THEN ApplyStock(d1, old, old_new_stock) ELSE d1
      n2 == IF rev THEN n1 + 1 ELSE n1
      new_stock == IF changed THEN r.pstock + Sign(r.kind) * NewQuantity(r)
                   ELSE r.pstock + QuantityDiff(r)
  IN IF ~changed /\ QuantityDiff(r) = 0
     THEN TxR(TRUE, "ok", d1, n1, FALSE, FALSE, "error500")
     ELSE IF rev /\ r.kind # "sale" /\ old_new_stock < 0
     THEN TxR(TRUE, "insufficient", d1, n1, FALSE, FALSE, "error500")
     ELSE IF rev /\ ~GateMatches(d1, old, d1.version[old], r.sc, TRUE)
     THEN TxR(TRUE, "conflict", d1, n1, TRUE, TRUE, "error500")
     ELSE IF new_stock < 0
     THEN TxR(TRUE, "insufficient", d2, n2, rev, FALSE, "error500")
     ELSE IF ~GateMatches(d2, r.pid, r.pver, r.sc, r.kind # "purchase")
     THEN TxR(TRUE, "conflict", d2, n2, TRUE, TRUE, "error500")
     ELSE TxR(TRUE, "ok", ApplyStock(d2, r.pid, new_stock), n2 + 1, TRUE,
              FALSE, "error500")

\* DELETE FROM purchases|returns WHERE id = ? AND workspaceId|userId = ?
DeleteRow(d, id, kind, sc) ==
  IF RowVisible(d, id, kind, sc) THEN [d EXCEPT !.rows[id] = NoRow] ELSE d

TxDelete(r, d) ==
  LET new_stock == r.pstock - Sign(r.kind) * r.rowQty
      d1 == ApplyStock(d, r.pid, new_stock)
      rowHit == RowVisible(d, r.rowId, r.kind, r.sc)
      nrow == IF rowHit THEN 1 ELSE 0
  IN IF r.pid = NoProd
     THEN IF r.kind = "sale"
          THEN TxR(FALSE, "ok", d, 0, FALSE, FALSE, "busy")
          ELSE TxR(TRUE, "ok", DeleteRow(d, r.rowId, r.kind, r.sc), nrow,
                   FALSE, FALSE, "busy")
     ELSE IF r.kind = "return" /\ new_stock < 0
     THEN TxR(FALSE, "insufficient", d, 0, FALSE, FALSE, "error500")
     ELSE IF ~GateMatches(d, r.pid, r.pver, r.sc, TRUE)
     THEN TxR(TRUE, "conflict", d, 0, TRUE, TRUE, "error500")
     ELSE IF r.kind = "sale"
     THEN TxR(TRUE, "ok", d1, 1, TRUE, FALSE, "error500")
     ELSE TxR(TRUE, "ok", DeleteRow(d1, r.rowId, r.kind, r.sc), 1 + nrow,
              TRUE, FALSE, "error500")

\* update_product_stock storing the delta in place of stock + delta
TxStockStoresDelta(r, d, tc) ==
  LET match == GateMatches(d, r.pid, r.pver, r.sc, TRUE)
      d1 == IF match THEN ApplyStock(d, r.pid, r.argQty) ELSE d
      n == IF match THEN 1 ELSE 0
  IN IF tc + n = 0
     THEN TxR(TRUE, "conflict", d1, n, TRUE, ~match, "busy")
     ELSE TxR(TRUE, "ok", d1, n, TRUE, ~match, "busy")

\* update_product_stock: the success test is conn.total_changes == 0, the
\* connection's running total (tc before the UPDATE)
TxStock(r, d, tc) ==
  LET match == GateMatches(d, r.pid, r.pver, r.sc, TRUE)
      d1 == IF match THEN ApplyStock(d, r.pid, r.pstock + r.argQty) ELSE d
      n == IF match THEN 1 ELSE 0
  IN IF tc + n = 0
     THEN TxR(TRUE, "conflict", d1, n, TRUE, ~match, "busy")
     ELSE TxR(TRUE, "ok", d1, n, TRUE, ~match, "busy")

\* update_product: UPDATE products SET stock = ?, version = version + 1
\* WHERE id = ? AND workspaceId|userId = ?
TxProduct(r, d) ==
  LET hit == ProdByName(d, r.pid, r.sc) # NoProd
      d1 == IF hit THEN ApplyStock(d, r.pid, r.argQty) ELSE d
  IN TxR(TRUE, "ok", d1, IF hit THEN 1 ELSE 0, FALSE, FALSE, "error500")

\* delete_product: DELETE FROM products WHERE id = ? AND workspaceId|userId = ?
\* (the ledger tables hold the product's name, not a foreign key)
TxDelProduct(r, d) ==
  LET hit == ProdByName(d, r.pid, r.sc) # NoProd
      d1 == IF hit THEN [d EXCEPT !.present[r.pid] = FALSE] ELSE d
  IN TxR(TRUE, "ok", d1, IF hit THEN 1 ELSE 0, FALSE, FALSE, "error500")

TxBody(r, d, tc) ==
  CASE r.op = "create" -> TxCreate(r, d)
    [] r.op = "update" -> TxUpdate(r, d)
    [] r.op = "delete" -> TxDelete(r, d)
    [] r.op = "stock" -> TxStock(r, d, tc)
    [] r.op = "delprod" -> TxDelProduct(r, d)
    [] OTHER -> TxProduct(r, d)


\* ------------------------------------------------------- request handlers
IdleH == [pc |-> "idle", op |-> "none", kind |-> "none",
          sc |-> [user |-> 1, ws |-> FALSE], argProd |-> NoProd,
          argQty |-> NoQty, rowId |-> 1, expVer |-> NoVer, conn |-> 0,
          rowProd |-> NoProd, rowQty |-> 0, pid |-> NoProd, pstock |-> 0,
          pver |-> NoVer, gated |-> FALSE, zero |-> FALSE, wrote |-> FALSE,
          res |-> "none"]

Running(p) == h[p].pc \notin {"idle", "done"}
CreatesInFlight == Cardinality({p \in Procs : Running(p) /\ h[p].op = "create"})

\* stock of the products when they were created (version 1, no ledger row)
InitStock == [p \in Prods |-> IF p = "A" THEN 0 ELSE 1]

BlankDb == [stock |-> InitStock, version |-> [p \in Prods |-> 1],
            present |-> [p \in Prods |-> TRUE],
            rows |-> [i \in RowIds |-> NoRow], nextId |-> 1]

\* what stays known of a finished request: the row it named, the product
\* and version its stock write was gated on, the version the client sent,
\* whether a gated UPDATE ran and matched no row, whether the committed
\* transaction changed a products row, and the response
DoneH(r, res, wrote) ==
  [IdleH EXCEPT !.pc = "done", !.op = r.op, !.kind = r.kind, !.pid = r.pid,
                !.pver = r.pver, !.gated = r.gated, !.zero = r.zero,
                !.rowId = r.rowId, !.rowProd = r.rowProd, !.expVer = r.expVer,
                !.wrote = wrote, !.res = res]

\* the handler leaves "with pool.get_connection()": the connection goes back
\* to the pool and the response is sent
Finish(p, res) ==
  h' = [h EXCEPT ![p] = DoneH(h[p], res, FALSE)]

\* a request arrives and get_connection() hands it a pooled connection;
\* connections are named after the handler slot that holds them
Begin(p, op, kind, sc, prod, qty, id, ev) ==
  /\ ~Running(p)
  /\ nops < MaxOps
  /\ nops' = nops + 1
  /\ h' = [h EXCEPT ![p] = [IdleH EXCEPT !.pc = IF op \in {"update", "delete"}
                                                THEN "readRow" ELSE "readProd",
                                         !.op = op, !.kind = kind, !.sc = sc,
                                         !.argProd = prod, !.argQty = qty,
                                         !.rowId = id, !.expVer = ev,
                                         !.conn = p]]
  /\ UNCHANGED <<db, tx, lock, totalChanges>>

\* POST /api/purchases, /api/sales, /api/returns
StartCreate(p) ==
  \E kind \in Kinds, sc \in Scopes, prod \in Prods, qty \in {1, -1} :
    /\ qty < 0 => kind = "purchase"
    /\ db.nextId + CreatesInFlight <= MaxRows
    /\ Begin(p, "create", kind, sc, prod, qty, 1, NoVer)

\* PUT /api/purchases/{id}, /api/sales/{id}, /api/returns/{id} for a row the
\* client has listed
StartUpdate(p) ==
  \E sc \in Scopes, prod \in Prods \cup {NoProd}, qty \in Qtys \cup {NoQty},
     id \in RowIds :
    /\ db.rows[id].kind # "none"
    /\ prod # NoProd \/ qty # NoQty
    /\ Begin(p, "update", db.rows[id].kind, sc, prod, qty, id, NoVer)

\* DELETE /api/purchases/{id}, /api/sales/{id}, /api/returns/{id} for a row
\* the client has listed
StartDelete(p) ==
  \E sc \in Scopes, id \in RowIds :
    /\ db.rows[id].kind # "none"
    /\ Begin(p, "delete", db.rows[id].kind, sc, NoProd, NoQty, id, NoVer)

\* versions a client sends: the one it would read now, or one off
ClientVersions(prod) ==
  {v \in {db.version[prod] - 1, db.version[prod], db.version[prod] + 1} : v >= 1}

\* POST /api/products/{id}/stock
StartStock(p) ==
  \E sc \in Scopes, delta \in {-1, 1}, ev \in ClientVersions("A") :
    Begin(p, "stock", "none", sc, "A", delta, 1, ev)

\* PUT /api/products/{id} with a stock field, with or without a version
StartProduct(p) ==
  \E sc \in Scopes, stock \in {0, 2}, ev \in {NoVer, db.version["A"]} :
    Begin(p, "product", "none", sc, "A", stock, 1, ev)

\* DELETE /api/products/{id}
StartDelProduct(p) ==
  \E sc \in Scopes, prod \in Prods :
    /\ db.present[prod]
    /\ Begin(p, "delprod", "none", sc, prod, NoQty, 1, NoVer)

\* SELECT of the ledger row by update_* and delete_*
ReadRow(p) ==
  /\ h[p].pc = "readRow"
  /\ IF RowVisible(db, h[p].rowId, h[p].kind, h[p].sc)
     THEN h' = [h EXCEPT ![p].pc = "readProd",
                         ![p].rowProd = db.rows[h[p].rowId].prod,
                         ![p].rowQty = db.rows[h[p].rowId].qty]
     ELSE Finish(p, "notfound")
  /\ UNCHANGED <<db, tx, lock, totalChanges, nops>>

\* the checks without update_product_stock's comparison of versions
PreCheckNoVersion(r) ==
  CASE r.op = "create" ->
         IF r.kind = "purchase" /\ r.argQty < 0 /\ r.pstock < -r.argQty
           THEN "insufficient"
         ELSE IF r.kind = "sale" /\ r.pstock < r.argQty THEN "insufficient"
         ELSE "ok"
    [] r.op = "update" ->
         IF ProductChanged(r)
         THEN IF r.kind = "sale" /\ NewQuantity(r) > 0 /\ r.pstock < NewQuantity(r)
              THEN "insufficient" ELSE "ok"
         ELSE IF QuantityDiff(r) < 0 /\ r.pstock < -QuantityDiff(r)
              THEN "insufficient" ELSE "ok"
    [] r.op = "stock" ->
         IF r.pstock + r.argQty < 0 THEN "insufficient" ELSE "ok"
    [] r.op = "product" ->
         IF r.expVer # NoVer /\ r.expVer # r.pver THEN "conflict" ELSE "ok"
    [] OTHER -> "ok"

\* the stock checks a handler makes on the product row it has just read
PreCheck(r) ==
  CASE r.op = "create" ->
         IF r.kind = "purchase" /\ r.argQty < 0 /\ r.pstock < -r.argQty
           THEN "insufficient"
         ELSE IF r.kind = "sale" /\ r.pstock < r.argQty THEN "insufficient"
         ELSE "ok"
    [] r.op = "update" ->
         IF ProductChanged(r)
         THEN IF r.kind = "sale" /\ NewQuantity(r) > 0 /\ r.pstock < NewQuantity(r)
              THEN "insufficient" ELSE "ok"
         ELSE IF QuantityDiff(r) < 0 /\ r.pstock < -QuantityDiff(r)
              THEN "insufficient" ELSE "ok"
    [] r.op = "stock" ->
         IF r.expVer # r.pver THEN "conflict"
         ELSE IF r.pstock + r.argQty < 0 THEN "insufficient" ELSE "ok"
    [] r.op = "product" ->
         IF r.expVer # NoVer /\ r.expVer # r.pver THEN "conflict" ELSE "ok"
    [] OTHER -> "ok"

\* name (or id) of the product row the handler reads
TargetProd(r) ==
  CASE r.op = "update" -> IF ProductChanged(r) THEN r.argProd ELSE r.rowProd
    [] r.op = "delete" -> r.rowProd
    [] OTHER -> r.argProd

\* SELECT of the product row the stock write will be gated on
ReadProd(p) ==
  /\ h[p].pc = "readProd"
  /\ LET r == h[p]
         found == ProdByName(db, TargetProd(r), r.sc)
         r1 == [r EXCEPT !.pid = found,
                         !.pstock = IF found = NoProd THEN 0 ELSE db.stock[found],
                         !.pver = IF found = NoProd THEN NoVer ELSE db.version[found]]
     IN IF found = NoProd
        THEN IF r.op = "delete"
             THEN h' = [h EXCEPT ![p] = [r1 EXCEPT !.pc = "write"]]
             ELSE Finish(p, "notfound")
        ELSE IF PreCheck(r1) # "ok"
        THEN h' = [h EXCEPT ![p] = DoneH(r1, PreCheck(r1), FALSE)]
        ELSE h' = [h EXCEPT ![p] = [r1 EXCEPT !.pc =
                       IF r.op = "update" /\ ProductChanged(r) /\ r.kind # "sale"
                       THEN "readOld" ELSE "write"]]
  /\ UNCHANGED <<db, tx, lock, totalChanges, nops>>

\* update_purchase / update_return with a new product: the check of the old
\* product's stock before the transaction
ReadOld(p) ==
  /\ h[p].pc = "readOld"
  /\ LET r == h[p]
         old == ProdByName(db, r.rowProd, r.sc)
     IN IF old # NoProd /\ db.stock[old] < r.rowQty
        THEN Finish(p, "insufficient")
        ELSE IF r.kind = "purchase" /\ NewQuantity(r) < 0
                /\ r.pstock < -NewQuantity(r)
        THEN Finish(p, "insufficient")
        ELSE h' = [h EXCEPT ![p].pc = "write"]
  /\ UNCHANGED <<db, tx, lock, totalChanges, nops>>

\* sqlite3 total_changes after n more changed rows
Bump(tc, n) == IF tc + n > MaxTotalChanges THEN MaxTotalChanges ELSE tc + n

\* the handler fails (or, delete_sale of a row whose product is gone,
\* succeeds) before it reaches a write statement
WriteNone(p) ==
  /\ h[p].pc = "write"
  /\ LET t == TxBody(h[p], db, totalChanges[h[p].conn])
     IN /\ ~t.dml
        /\ Finish(p, t.res)
  /\ UNCHANGED <<db, tx, lock, totalChanges, nops>>

\* the first write statement obtains the write lock and the handler runs its
\* statements up to the commit or the raise
WriteTx(p) ==
  /\ h[p].pc = "write"
  /\ lock = 0
  /\ LET t == TxBody(h[p], db, totalChanges[h[p].conn])
     IN /\ t.dml
        /\ tx' = t.db
        /\ lock' = p
        /\ totalChanges' = [totalChanges EXCEPT ![h[p].conn] = Bump(@, t.nchg)]
        /\ h' = [h EXCEPT ![p].pc = IF t.res = "ok" THEN "commit" ELSE "rollback",
                          ![p].gated = t.gated, ![p].zero = t.zero,
                          ![p].res = t.res]
  /\ UNCHANGED <<db, nops>>

\* the first write statement waits busy_timeout for another connection's
\* write lock and raises sqlite3.OperationalError "database is locked"
WriteBusy(p) ==
  /\ h[p].pc = "write"
  /\ lock # 0
  /\ LET t == TxBody(h[p], db, totalChanges[h[p].conn])
     IN /\ t.dml
        /\ Finish(p, t.busy)
  /\ UNCHANGED <<db, tx, lock, totalChanges, nops>>

\* conn.commit(): the transaction's writes become the committed state
CommitDb(p) == db' = tx

\* a rollback that lets the transaction's writes through
RollbackKeeps(p) == db' = tx

\* conn.rollback(): the transaction's writes are dropped
RollbackDb(p) == db' = db

Commit(p) ==
  /\ h[p].pc = "commit"
  /\ lock = p
  /\ CommitDb(p)
  /\ tx' = db'
  /\ lock' = 0
  /\ h' = [h EXCEPT ![p] = DoneH(h[p], "ok", tx.version # db.version)]
  /\ UNCHANGED <<totalChanges, nops>>

Rollback(p) ==
  /\ h[p].pc = "rollback"
  /\ lock = p
  /\ RollbackDb(p)
  /\ tx' = db'
  /\ lock' = 0
  /\ Finish(p, h[p].res)
  /\ UNCHANGED <<totalChanges, nops>>

\* --------------------------------------------------- the connection pool
Threads == 1..NumThreads

\* a thread outside get_connection; inside it, blk tells how the caller's
\* block ended ("returned", "raised", "commitraised" when conn.commit()
\* raised) and txn the state of the unit of work on the held connection
\* what leaves the with block or conn.commit(): the exception's class as the
\* except clauses of get_connection tell it apart, and whether its text
\* contains "database is locked"
Exceptions == [cls : {"OperationalError", "Exception"}, locked : BOOLEAN]

NoException == [cls |-> "none", locked |-> FALSE]

\* asyncio.CancelledError, KeyboardInterrupt: no except clause matches
AbortException == [cls |-> "BaseException", locked |-> FALSE]

IdleT == [pc |-> "idle", conn |-> 0, waits |-> 0, res |-> "none",
          blk |-> "none", txn |-> "none", exc |-> NoException,
          raised |-> "none"]

Min(a, b) == IF a < b THEN a ELSE b

\* the connections in the idle queue
Queued == {pool[i] : i \in 1..Len(pool)}

\* the threads that own a connection
Holders == {t \in Threads : th[t].conn # 0}

\* __init__: _initialize_pool puts min(3, max_connections) connections in the
\* queue, then _initialize_database takes the first and gives it back
PoolInit ==
  /\ pool = Tail([i \in 1..Min(PreWarm, MaxConnections) |-> i]) \o <<1>>
  /\ active = 0
  /\ totalCreated = Min(PreWarm, MaxConnections)
  /\ th = [t \in Threads |-> IdleT]
  /\ npool = 0
  /\ probeFailed = {}
  /\ txnOpen = {}

\* a thread enters get_connection and _acquire_connection
AcquireStart(t) ==
  /\ th[t].pc = "idle"
  /\ npool < MaxPoolOps
  /\ npool' = npool + 1
  /\ th' = [th EXCEPT ![t] = [IdleT EXCEPT !.pc = "poll"]]
  /\ UNCHANGED <<pool, active, totalCreated, probeFailed, txnOpen>>

\* a get that hands out the head of the queue and leaves it queued
PollGetKeeps(t) ==
  /\ th[t].pc = "poll"
  /\ pool # <<>>
  /\ th' = [th EXCEPT ![t].pc = "got", ![t].conn = Head(pool)]
  /\ UNCHANGED <<pool, active, totalCreated, npool, probeFailed, txnOpen>>

\* conn = self._pool.get(timeout=0.1) returns a connection
PollGet(t) ==
  /\ th[t].pc = "poll"
  /\ pool # <<>>
  /\ pool' = Tail(pool)
  /\ th' = [th EXCEPT ![t].pc = "got", ![t].conn = Head(pool)]
  /\ UNCHANGED <<active, totalCreated, npool, probeFailed, txnOpen>>

\* with self._lock: self._active_connections += 1; return conn
CountGot(t) ==
  /\ th[t].pc = "got"
  /\ active' = active + 1
  /\ th' = [th EXCEPT ![t].pc = "held", ![t].res = "conn", ![t].txn = "open"]
  /\ UNCHANGED <<pool, totalCreated, npool, probeFailed>>
  /\ txnOpen' = txnOpen \cup {th[t].conn}

\* self._pool.get(timeout=0.1) raises queue.Empty
PollEmpty(t) ==
  /\ th[t].pc = "poll"
  /\ pool = <<>>
  /\ th' = [th EXCEPT ![t].pc = "empty"]
  /\ UNCHANGED <<pool, active, totalCreated, npool, probeFailed, txnOpen>>

\* after queue.Empty, under the lock _active_connections < max_connections:
\* a new connection is created and counted
PollCreate(t) ==
  /\ th[t].pc = "empty"
  /\ active < MaxConnections
  /\ active' = active + 1
  /\ totalCreated' = totalCreated + 1
  /\ th' = [th EXCEPT ![t].pc = "held", ![t].conn = totalCreated + 1,
                       ![t].res = "conn", ![t].txn = "open"]
  /\ UNCHANGED <<pool, npool, probeFailed>>
  /\ txnOpen' = txnOpen \cup {totalCreated + 1}

\* a wait that never notices the time that has passed
PollWaitForever(t) ==
  /\ th[t].pc = "empty"
  /\ active >= MaxConnections
  /\ th' = [th EXCEPT ![t].pc = "poll"]
  /\ UNCHANGED <<pool, active, totalCreated, npool, probeFailed, txnOpen>>

\* after queue.Empty at capacity, elapsed < self.timeout: sleep, poll again
PollWait(t) ==
  /\ th[t].pc = "empty"
  /\ active >= MaxConnections
  /\ th[t].waits < TimeoutPolls
  /\ th' = [th EXCEPT ![t].pc = "poll", ![t].waits = @ + 1]
  /\ UNCHANGED <<pool, active, totalCreated, npool, probeFailed, txnOpen>>

\* after queue.Empty at capacity, elapsed >= self.timeout: raise
\* ConnectionTimeoutError; get_connection has no connection to release
PollTimeout(t) ==
  /\ th[t].pc = "empty"
  /\ active >= MaxConnections
  /\ th[t].waits >= TimeoutPolls
  /\ th' = [th EXCEPT ![t] = [IdleT EXCEPT !.res = "timeout"]]
  /\ UNCHANGED <<pool, active, totalCreated, npool, probeFailed, txnOpen>>

\* get_connection whose block returns normally but whose commit is skipped
UowCommitsSkipped(t) ==
  /\ th[t].pc = "held"
  /\ th' = [th EXCEPT ![t].pc = "release", ![t].blk = "returned"]
  /\ UNCHANGED <<pool, active, totalCreated, npool, probeFailed, txnOpen>>

\* get_connection: the caller's block returns normally and conn.commit()
\* succeeds; the finally clause is next
UowCommits(t) ==
  /\ th[t].pc = "held"
  /\ th' = [th EXCEPT ![t].pc = "release", ![t].blk = "returned",
                      ![t].txn = "committed"]
  /\ UNCHANGED <<pool, active, totalCreated, npool, probeFailed>>
  /\ txnOpen' = txnOpen \ {th[t].conn}

\* get_connection's except clauses with every exception raised on unchanged
ReraisesAll(e, ok) ==
  IF ~ok THEN "RollbackError" ELSE e.cls

\* get_connection's except clauses: what the caller of the with statement
\* sees. conn.rollback() runs first and its own exception wins (ok = FALSE);
\* a sqlite3.OperationalError whose text contains "database is locked"
\* becomes DatabaseBusyError; everything else is raised on by a bare raise
Reraises(e, ok) ==
  IF ~ok THEN "RollbackError"
  ELSE IF e.cls = "OperationalError" /\ e.locked THEN "DatabaseBusyError"
  ELSE e.cls

\* the block returns normally and conn.commit() raises: an except clause
\* runs conn.rollback() and raises; when that rollback raises too
\* (ok = FALSE) the transaction is left open for _release_connection
UowCommitRaises(t) ==
  /\ th[t].pc = "held"
  /\ \E ok \in BOOLEAN, e \in Exceptions :
       th' = [th EXCEPT ![t].pc = "release", ![t].blk = "commitraised",
                        ![t].txn = IF ok THEN "rolledback" ELSE "open",
                        ![t].exc = e, ![t].raised = Reraises(e, ok)]
  /\ UNCHANGED <<pool, active, totalCreated, npool, probeFailed>>
  /\ txnOpen' = IF th'[t].txn = "open" THEN txnOpen ELSE txnOpen \ {th[t].conn}

\* the block raises an Exception (sqlite3.OperationalError or any other): an
\* except clause runs conn.rollback() and raises
UowBlockRaises(t) ==
  /\ th[t].pc = "held"
  /\ \E ok \in BOOLEAN, e \in Exceptions :
       th' = [th EXCEPT ![t].pc = "release", ![t].blk = "raised",
                        ![t].txn = IF ok THEN "rolledback" ELSE "open",
                        ![t].exc = e, ![t].raised = Reraises(e, ok)]
  /\ UNCHANGED <<pool, active, totalCreated, npool, probeFailed>>
  /\ txnOpen' = IF th'[t].txn = "open" THEN txnOpen ELSE txnOpen \ {th[t].conn}

\* the block is left by a BaseException that is no Exception
\* (asyncio.CancelledError, KeyboardInterrupt): only the finally clause runs
UowBlockAborts(t) ==
  /\ th[t].pc = "held"
  /\ th' = [th EXCEPT ![t].pc = "release", ![t].blk = "raised",
                      ![t].exc = AbortException,
                      ![t].raised = AbortException.cls]
  /\ UNCHANGED <<pool, active, totalCreated, npool, probeFailed, txnOpen>>

\* _release_connection without its conn.rollback()
ReleaseRollbackSkipped(t) ==
  /\ th[t].pc = "release"
  /\ th' = [th EXCEPT ![t].pc = "probe"]
  /\ UNCHANGED <<pool, active, totalCreated, npool, probeFailed, txnOpen>>

\* _release_connection, first statement: the defensive conn.rollback()
ReleaseRollback(t) ==
  /\ th[t].pc = "release"
  /\ th' = [th EXCEPT ![t].pc = "probe",
                      ![t].txn = IF @ = "open" THEN "rolledback" ELSE @]
  /\ UNCHANGED <<pool, active, totalCreated, npool, probeFailed>>
  /\ txnOpen' = txnOpen \ {th[t].conn}

\* a release that hands a connection whose probe failed back to the queue
ReleaseBrokenRequeues(t) ==
  /\ th[t].pc = "probe"
  /\ active' = active - 1
  /\ probeFailed' = probeFailed \cup {th[t].conn}
  /\ pool' = IF Len(pool) < MaxConnections THEN Append(pool, th[t].conn)
             ELSE pool
  /\ th' = [th EXCEPT ![t] = IdleT]
  /\ UNCHANGED <<totalCreated, npool, txnOpen>>

\* _release_connection of a healthy connection: count down, SELECT 1,
\* put_nowait (close when the queue is full)
ReleaseOk(t) ==
  /\ th[t].pc = "probe"
  /\ active' = active - 1
  /\ pool' = IF Len(pool) < MaxConnections THEN Append(pool, th[t].conn)
             ELSE pool
  /\ th' = [th EXCEPT ![t] = IdleT]
  /\ UNCHANGED <<totalCreated, npool, probeFailed, txnOpen>>

\* _release_connection when SELECT 1 raises sqlite3.Error: count down, drop
ReleaseBroken(t) ==
  /\ th[t].pc = "probe"
  /\ active' = active - 1
  /\ probeFailed' = probeFailed \cup {th[t].conn}
  /\ th' = [th EXCEPT ![t] = IdleT]
  /\ UNCHANGED <<pool, totalCreated, npool, txnOpen>>

\* _release_connection when conn.rollback() raises: the outer except closes
\* the connection (SQLite drops its open transaction); the count is not
\* touched
ReleaseRollbackFails(t) ==
  /\ th[t].pc = "release"
  /\ th' = [th EXCEPT ![t] = IdleT]
  /\ UNCHANGED <<pool, active, totalCreated, npool, probeFailed>>
  /\ txnOpen' = txnOpen \ {th[t].conn}

\* the first ledger rows a blank database accepts: quantity 1, created by
\* a workspace request of user 1
\* ------------------------------------------------------ execute_with_retry
Callers == 1..NumCallers

\* what get_connection and the statement can raise besides "database is locked"
OtherFailures == {"operror", "error"}

IdleR == [pc |-> "idle", n |-> 0, sel |-> FALSE, attempt |-> 0, runs |-> 0,
          busy |-> 0, sleeps |-> 0, slept |-> 0, last |-> "none", res |-> "none"]

RetryInit ==
  /\ rt = [c \in Callers |-> IdleR]
  /\ retryCount = 0

\* retry_attempts is self.retry_attempts, 3 in this program, unless the caller
\* passes a count of its own; the for loop starts with attempt 0
RetryCall(c) ==
  /\ rt[c].pc = "idle"
  /\ \E n \in 1..MaxAttempts, sel \in BOOLEAN :
       rt' = [rt EXCEPT ![c] = [IdleR EXCEPT !.n = n, !.sel = sel, !.pc = "acquire"]]
  /\ UNCHANGED retryCount

\* retry_attempts = 0 passed by the caller (0 is not None, so the default is
\* not taken): range(0) is empty, the loop body never runs, last_error is
\* still None and the function ends without a return statement
RetryCallEmpty(c) ==
  /\ rt[c].pc = "idle"
  /\ rt' = [rt EXCEPT ![c] = [IdleR EXCEPT !.n = 0, !.pc = "done", !.res = "None"]]
  /\ UNCHANGED retryCount

\* except DatabaseBusyError, with the sleep taken on the last attempt too
BusyUnbounded(c, r) ==
  /\ rt' = [rt EXCEPT ![c] = [r EXCEPT !.busy = @ + 1, !.last = "busy",
                                       !.pc = "sleep"]]
  /\ retryCount' = retryCount + 1

\* except DatabaseBusyError: count, then sleep or, on the last attempt, raise
Busy(c, r) ==
  /\ rt' = [rt EXCEPT ![c] =
       IF r.attempt < r.n - 1
         THEN [r EXCEPT !.busy = @ + 1, !.last = "busy", !.pc = "sleep"]
         ELSE [r EXCEPT !.busy = @ + 1, !.last = "busy", !.pc = "done",
                        !.res = "busy"]]
  /\ retryCount' = retryCount + 1

\* except Exception, handled the way DatabaseBusyError is
PropagateRetried(c, r, kind) ==
  /\ rt' = [rt EXCEPT ![c] =
       IF r.attempt < r.n - 1
         THEN [r EXCEPT !.last = kind, !.pc = "sleep"]
         ELSE [r EXCEPT !.last = kind, !.pc = "done", !.res = kind]]
  /\ UNCHANGED retryCount

\* except Exception: log and raise
Propagate(c, r, kind) ==
  /\ rt' = [rt EXCEPT ![c] = [r EXCEPT !.last = kind, !.pc = "done", !.res = kind]]
  /\ UNCHANGED retryCount

\* get_connection yields a connection
AttemptAcquired(c) ==
  /\ rt[c].pc = "acquire"
  /\ rt' = [rt EXCEPT ![c].pc = "execute"]
  /\ UNCHANGED retryCount

\* _acquire_connection raises ConnectionTimeoutError; get_connection has no
\* connection to roll back or release and raises it on
AttemptTimeout(c) ==
  /\ rt[c].pc = "acquire"
  /\ Propagate(c, rt[c], "timeout")

\* conn.execute and the fetch succeed; the return leaves the with block
ExecuteOk(c) ==
  /\ rt[c].pc = "execute"
  /\ rt' = [rt EXCEPT ![c].runs = @ + 1, ![c].pc = "commit"]
  /\ UNCHANGED retryCount

\* the statement raises "database is locked": get_connection rolls back and
\* raises DatabaseBusyError
ExecuteBusy(c) ==
  /\ rt[c].pc = "execute"
  /\ Busy(c, [rt[c] EXCEPT !.runs = @ + 1])

\* the statement raises anything else: get_connection rolls back and re-raises
ExecuteFails(c) ==
  /\ rt[c].pc = "execute"
  /\ \E kind \in OtherFailures : Propagate(c, [rt[c] EXCEPT !.runs = @ + 1], kind)

\* get_connection commits; the value of the return statement is the result
CommitOk(c) ==
  /\ rt[c].pc = "commit"
  /\ rt' = [rt EXCEPT ![c].pc = "done", ![c].last = "ok",
                      ![c].res = IF rt[c].sel THEN "rows" ELSE "rowcount"]
  /\ UNCHANGED retryCount

\* the commit raises "database is locked": the exception replaces the return
CommitBusy(c) ==
  /\ rt[c].pc = "commit"
  /\ Busy(c, rt[c])

\* the commit raises anything else
CommitFails(c) ==
  /\ rt[c].pc = "commit"
  /\ \E kind \in OtherFailures : Propagate(c, rt[c], kind)

\* a sleep that grows by retry_delay with every attempt
RetrySleepLinear(c) ==
  /\ rt[c].pc = "sleep"
  /\ rt' = [rt EXCEPT ![c].sleeps = @ + 1, ![c].slept = @ + rt[c].attempt + 1,
                      ![c].attempt = @ + 1, ![c].pc = "acquire"]
  /\ UNCHANGED retryCount

\* time.sleep(self.retry_delay * (2 ** attempt)), in units of retry_delay,
\* and the next round of the for loop
RetrySleep(c) ==
  /\ rt[c].pc = "sleep"
  /\ rt' = [rt EXCEPT ![c].sleeps = @ + 1, ![c].slept = @ + 2 ^ rt[c].attempt,
                      ![c].attempt = @ + 1, ![c].pc = "acquire"]
  /\ UNCHANGED retryCount

\* a request outside any nested get_connection
NoNested == [conn |-> 0, res |-> "none"]

NestInit == nested = [t \in Threads |-> NoNested]

\* the workspace-scoped requests in flight at once: as many as the pool has
\* slots
Requests == 1..MaxConnections

\* a ledger handler enters "with pool.get_connection() as conn"
RequestStart(t) ==
  /\ nested[t].conn = 0
  /\ AcquireStart(t)
  /\ nested' = [nested EXCEPT ![t] = NoNested]

\* inside its with block, before any write, a workspace-scoped handler awaits
\* require_server_storage, whose check_workspace_access enters
\* "with pool.get_connection() as conn" of its own: the handler's connection
\* stays checked out while _acquire_connection runs again
NestedCall(t) ==
  /\ th[t].pc = "held"
  /\ nested[t] = NoNested
  /\ nested' = [nested EXCEPT ![t].conn = th[t].conn]
  /\ th' = [th EXCEPT ![t] = [IdleT EXCEPT !.pc = "poll"]]
  /\ UNCHANGED <<pool, active, totalCreated, npool, probeFailed, txnOpen>>

\* check_workspace_access returns: True after its own unit of work, False
\* from "except Exception" when _acquire_connection raised
\* ConnectionTimeoutError; the handler goes on in its with block
NestedReturn(t) ==
  /\ th[t].pc = "idle"
  /\ nested[t].conn # 0
  /\ nested' = [nested EXCEPT ![t] =
       [conn |-> 0, res |-> IF th[t].res = "timeout" THEN "timeout" ELSE "ok"]]
  /\ th' = [th EXCEPT ![t] = [IdleT EXCEPT !.pc = "held", !.conn = nested[t].conn,
                                           !.res = "conn", !.txn = "open"]]
  /\ UNCHANGED <<pool, active, totalCreated, npool, probeFailed, txnOpen>>

\* the handler's block, or the block of check_workspace_access, returns and
\* conn.commit() succeeds; without access the handler raises HTTP 403 instead
RequestCommits(t) ==
  /\ nested[t].res # "timeout"
  /\ UowCommits(t)
  /\ UNCHANGED nested

\* the handler raises HTTPException(403) after check_workspace_access
\* returned False, or its block raises anything else
RequestRaises(t) ==
  /\ nested[t].conn = 0
  /\ UowBlockRaises(t)
  /\ UNCHANGED nested

FirstCreates == {kp \in Kinds \X Prods : InitStock[kp[2]] + Sign(kp[1]) >= 0}

FirstCreate(kp) ==
  TxCreate([IdleH EXCEPT !.op = "create", !.kind = kp[1],
                         !.sc = [user |-> 1, ws |-> TRUE], !.argProd = kp[2],
                         !.argQty = 1, !.pid = kp[2],
                         !.pstock = InitStock[kp[2]], !.pver = 1], BlankDb)

\* the state after the first ledger row has been created on connection 1
Init ==
  /\ \E kp \in FirstCreates : db = FirstCreate(kp).db
  /\ tx = db
  /\ lock = 0
  /\ totalChanges = [c \in Conns |-> IF c = 1 THEN Bump(0, 2) ELSE 0]
  /\ h = [p \in Procs |-> IdleH]
  /\ nops = 0
  /\ PoolInit
  /\ RetryInit
  /\ NestInit

Next ==
  \E p \in Procs :
    \/ StartCreate(p) /\ UNCHANGED <<poolVars, retryVars, nestVars>>
    \/ StartUpdate(p) /\ UNCHANGED <<poolVars, retryVars, nestVars>>
    \/ StartDelete(p) /\ UNCHANGED <<poolVars, retryVars, nestVars>>
    \/ StartStock(p) /\ UNCHANGED <<poolVars, retryVars, nestVars>>
    \/ StartProduct(p) /\ UNCHANGED <<poolVars, retryVars, nestVars>>
    \/ StartDelProduct(p) /\ UNCHANGED <<poolVars, retryVars, nestVars>>
    \/ ReadRow(p) /\ UNCHANGED <<poolVars, retryVars, nestVars>>
    \/ ReadProd(p) /\ UNCHANGED <<poolVars, retryVars, nestVars>>
    \/ ReadOld(p) /\ UNCHANGED <<poolVars, retryVars, nestVars>>
    \/ WriteNone(p) /\ UNCHANGED <<poolVars, retryVars, nestVars>>
    \/ WriteTx(p) /\ UNCHANGED <<poolVars, retryVars, nestVars>>
    \/ WriteBusy(p) /\ UNCHANGED <<poolVars, retryVars, nestVars>>
    \/ Commit(p) /\ UNCHANGED <<poolVars, retryVars, nestVars>>
    \/ Rollback(p) /\ UNCHANGED <<poolVars, retryVars, nestVars>>

Spec == Init /\ [][Next]_vars

\* the pool on its own, under any interleaving of its threads
PoolStart ==
  /\ db = BlankDb
  /\ tx = db
  /\ lock = 0
  /\ totalChanges = [c \in Conns |-> 0]
  /\ h = [p \in Procs |-> IdleH]
  /\ nops = 0
  /\ PoolInit
  /\ RetryInit
  /\ NestInit

PoolNext ==
  \E t \in Threads :
    \/ AcquireStart(t) /\ UNCHANGED <<invVars, retryVars, nestVars>>
    \/ PollGet(t) /\ UNCHANGED <<invVars, retryVars, nestVars>>
    \/ CountGot(t) /\ UNCHANGED <<invVars, retryVars, nestVars>>
    \/ PollEmpty(t) /\ UNCHANGED <<invVars, retryVars, nestVars>>
    \/ PollCreate(t) /\ UNCHANGED <<invVars, retryVars, nestVars>>
    \/ PollWait(t) /\ UNCHANGED <<invVars, retryVars, nestVars>>
    \/ PollTimeout(t) /\ UNCHANGED <<invVars, retryVars, nestVars>>
    \/ UowCommits(t) /\ UNCHANGED <<invVars, retryVars, nestVars>>
    \/ UowCommitRaises(t) /\ UNCHANGED <<invVars, retryVars, nestVars>>
    \/ UowBlockRaises(t) /\ UNCHANGED <<invVars, retryVars, nestVars>>
    \/ UowBlockAborts(t) /\ UNCHANGED <<invVars, retryVars, nestVars>>
    \/ ReleaseRollback(t) /\ UNCHANGED <<invVars, retryVars, nestVars>>
    \/ ReleaseOk(t) /\ UNCHANGED <<invVars, retryVars, nestVars>>
    \/ ReleaseBroken(t) /\ UNCHANGED <<invVars, retryVars, nestVars>>
    \/ ReleaseRollbackFails(t) /\ UNCHANGED <<invVars, retryVars, nestVars>>

PoolSpec == PoolStart /\ [][PoolNext]_vars

\* the steps of thread t inside _acquire_connection
AcquireStep(t) ==
  /\ \/ PollGet(t) \/ CountGot(t) \/ PollEmpty(t)
     \/ PollCreate(t) \/ PollWait(t) \/ PollTimeout(t)
  /\ UNCHANGED <<invVars, retryVars, nestVars>>

\* the pool under callers whose blocks return normally
AcquireNext ==
  \E t \in Threads :
    \/ AcquireStart(t) /\ UNCHANGED <<invVars, retryVars, nestVars>>
    \/ PollGet(t) /\ UNCHANGED <<invVars, retryVars, nestVars>>
    \/ CountGot(t) /\ UNCHANGED <<invVars, retryVars, nestVars>>
    \/ PollEmpty(t) /\ UNCHANGED <<invVars, retryVars, nestVars>>
    \/ PollCreate(t) /\ UNCHANGED <<invVars, retryVars, nestVars>>
    \/ PollWait(t) /\ UNCHANGED <<invVars, retryVars, nestVars>>
    \/ PollTimeout(t) /\ UNCHANGED <<invVars, retryVars, nestVars>>
    \/ UowCommits(t) /\ UNCHANGED <<invVars, retryVars, nestVars>>
    \/ ReleaseRollback(t) /\ UNCHANGED <<invVars, retryVars, nestVars>>
    \/ ReleaseOk(t) /\ UNCHANGED <<invVars, retryVars, nestVars>>
    \/ ReleaseBroken(t) /\ UNCHANGED <<invVars, retryVars, nestVars>>
    \/ ReleaseRollbackFails(t) /\ UNCHANGED <<invVars, retryVars, nestVars>>

\* every thread inside _acquire_connection is scheduled again and again;
\* nothing obliges a caller to give its connection back
AcquireFairSpec ==
  PoolStart /\ [][AcquireNext]_vars /\ \A t \in Threads : WF_vars(AcquireStep(t))

\* callers of execute_with_retry, each attempt ending in any way it can
RetryNext ==
  \E c \in Callers :
    \/ RetryCall(c) /\ UNCHANGED <<invVars, poolVars, nestVars>>
    \/ AttemptAcquired(c) /\ UNCHANGED <<invVars, poolVars, nestVars>>
    \/ AttemptTimeout(c) /\ UNCHANGED <<invVars, poolVars, nestVars>>
    \/ ExecuteOk(c) /\ UNCHANGED <<invVars, poolVars, nestVars>>
    \/ ExecuteBusy(c) /\ UNCHANGED <<invVars, poolVars, nestVars>>
    \/ ExecuteFails(c) /\ UNCHANGED <<invVars, poolVars, nestVars>>
    \/ CommitOk(c) /\ UNCHANGED <<invVars, poolVars, nestVars>>
    \/ CommitBusy(c) /\ UNCHANGED <<invVars, poolVars, nestVars>>
    \/ CommitFails(c) /\ UNCHANGED <<invVars, poolVars, nestVars>>
    \/ RetrySleep(c) /\ UNCHANGED <<invVars, poolVars, nestVars>>

RetrySpec == PoolStart /\ [][RetryNext]_vars

\* workspace-scoped ledger requests, each on a thread of its own, with the
\* nested get_connection of their permission check
NestNext ==
  \E t \in Requests :
    \/ RequestStart(t) /\ UNCHANGED <<invVars, retryVars>>
    \/ NestedCall(t) /\ UNCHANGED <<invVars, retryVars>>
    \/ NestedReturn(t) /\ UNCHANGED <<invVars, retryVars>>
    \/ PollGet(t) /\ UNCHANGED <<invVars, retryVars, nestVars>>
    \/ CountGot(t) /\ UNCHANGED <<invVars, retryVars, nestVars>>
    \/ PollEmpty(t) /\ UNCHANGED <<invVars, retryVars, nestVars>>
    \/ PollCreate(t) /\ UNCHANGED <<invVars, retryVars, nestVars>>
    \/ PollWait(t) /\ UNCHANGED <<invVars, retryVars, nestVars>>
    \/ PollTimeout(t) /\ UNCHANGED <<invVars, retryVars, nestVars>>
    \/ RequestCommits(t) /\ UNCHANGED <<invVars, retryVars>>
    \/ RequestRaises(t) /\ UNCHANGED <<invVars, retryVars>>
    \/ ReleaseRollback(t) /\ UNCHANGED <<invVars, retryVars, nestVars>>
    \/ ReleaseOk(t) /\ UNCHANGED <<invVars, retryVars, nestVars>>
    \/ ReleaseBroken(t) /\ UNCHANGED <<invVars, retryVars, nestVars>>
    \/ ReleaseRollbackFails(t) /\ UNCHANGED <<invVars, retryVars, nestVars>>

NestSpec == PoolStart /\ [][NestNext]_vars

\* callers of execute_with_retry that may pass any retry_attempts from 0 up
RetryAnyNext ==
  \/ RetryNext
  \/ \E c \in Callers : RetryCallEmpty(c) /\ UNCHANGED <<invVars, poolVars, nestVars>>

RetryAnySpec == PoolStart /\ [][RetryAnyNext]_vars

\* ledger requests only: no direct edit of a product's stock
LedgerNext ==
  \E p \in Procs :
    \/ StartCreate(p) /\ UNCHANGED <<poolVars, retryVars, nestVars>>
    \/ StartUpdate(p) /\ UNCHANGED <<poolVars, retryVars, nestVars>>
    \/ StartDelete(p) /\ UNCHANGED <<poolVars, retryVars, nestVars>>
    \/ ReadRow(p) /\ UNCHANGED <<poolVars, retryVars, nestVars>>
    \/ ReadProd(p) /\ UNCHANGED <<poolVars, retryVars, nestVars>>
    \/ ReadOld(p) /\ UNCHANGED <<poolVars, retryVars, nestVars>>
    \/ WriteNone(p) /\ UNCHANGED <<poolVars, retryVars, nestVars>>
    \/ WriteTx(p) /\ UNCHANGED <<poolVars, retryVars, nestVars>>
    \/ WriteBusy(p) /\ UNCHANGED <<poolVars, retryVars, nestVars>>
    \/ Commit(p) /\ UNCHANGED <<poolVars, retryVars, nestVars>>
    \/ Rollback(p) /\ UNCHANGED <<poolVars, retryVars, nestVars>>

LedgerSpec == Init /\ [][LedgerNext]_vars

\* ------------------------------------------------------------------ claims
Done(p) == h[p].pc = "done"

\* C1: two stock-mutating requests that read the same (stock, version) of a
\* product and both ran their version-gated UPDATE do not both report
\* success: the loser ends in a version conflict.
C1_NoLostUpdate ==
  \A p, q \in Procs :
    (p # q /\ Done(p) /\ Done(q) /\ h[p].gated /\ h[q].gated
       /\ h[p].pid # NoProd /\ h[p].pid = h[q].pid /\ h[p].pver = h[q].pver)
    => ~(h[p].res = "ok" /\ h[q].res = "ok")

\* C2: _active_connections never exceeds max_connections.
C2_PoolBound == active <= MaxConnections

\* C3: no product's committed stock is negative.
C3_NonNegative == \A prod \in Prods : db.stock[prod] >= 0

\* an update_* request that names another product than the row's
Reassociating(p) ==
  /\ h[p].op = "update"
  /\ h[p].pc \in {"readProd", "readOld", "write", "commit", "rollback"}
  /\ ProductChanged(h[p])

\* C4: a re-association that ends in anything but success leaves the
\* committed products and ledger rows exactly as they were, and no step
\* commits the old product's reversal without the new product's write.
C4_AtomicReassociation ==
  [][\A p \in Procs :
       (Reassociating(p) /\ h'[p].pc = "done") =>
         /\ h'[p].res # "ok" => db' = db
         /\ db'.version[h[p].rowProd] # db.version[h[p].rowProd] =>
              db'.version[h[p].argProd] = db.version[h[p].argProd] + 1]_vars

\* a re-association finished in a conflict raised by the new product's
\* UPDATE, after the old product's reversal had been executed
C4_Witness ==
  \E p \in Procs :
    /\ Done(p) /\ h[p].op = "update" /\ h[p].res = "conflict" /\ h[p].zero
    /\ h[p].rowProd # NoProd /\ h[p].pid \notin {NoProd, h[p].rowProd}

RECURSIVE LedgerSum(_, _, _)
\* net effect on prod of the stored ledger rows with an id in ids
LedgerSum(d, prod, ids) ==
  IF ids = {} THEN 0
  ELSE LET i == CHOOSE x \in ids : TRUE
       IN (IF d.rows[i].kind # "none" /\ d.rows[i].prod = prod
           THEN Sign(d.rows[i].kind) * d.rows[i].qty ELSE 0)
          + LedgerSum(d, prod, ids \ {i})

\* C5: with ledger requests only, a product's committed stock is its initial
\* stock plus its stored purchases and returns minus its stored sales.
C5_Conservation ==
  \A prod \in Prods :
    db.stock[prod] = InitStock[prod] + LedgerSum(db, prod, RowIds)

\* C6: a product's stored version never decreases, moves by at most 1 in a
\* step, and every committed change of its stock comes with version + 1.
C6_VersionMonotonic ==
  [][\A prod \in Prods :
       /\ db'.version[prod] \in {db.version[prod], db.version[prod] + 1}
       /\ db'.stock[prod] # db.stock[prod] =>
            db'.version[prod] = db.version[prod] + 1]_vars

\* a product that has been through two successive committed mutations
C6_Witness ==
  \E prod \in Prods : db.version[prod] >= 3 /\ db.stock[prod] # InitStock[prod]

\* C7: update_product_stock that finds the product at a version other than
\* the one the client sent ends in a version conflict and commits nothing.
C7_ConflictCorrectness ==
  \A p \in Procs :
    (Done(p) /\ h[p].op = "stock" /\ h[p].pid # NoProd
       /\ h[p].expVer # h[p].pver)
    => (h[p].res = "conflict" /\ ~h[p].wrote /\ ~h[p].gated)

\* update_product_stock was called with the stale version v - 1
C7_Witness ==
  \E p \in Procs :
    /\ Done(p) /\ h[p].op = "stock" /\ h[p].pid # NoProd
    /\ h[p].expVer = h[p].pver - 1 /\ h[p].res = "conflict"

\* C8: a request whose version-gated UPDATE matched no row ends in a version
\* conflict, never in success.
C8_VerifyStep ==
  \A p \in Procs :
    (Done(p) /\ h[p].gated /\ h[p].zero) => h[p].res = "conflict"

\* C9: of two update_product requests that carry the same expected version,
\* at most one changes the product.
C9_ProductUpdateGate ==
  \A p, q \in Procs :
    (p # q /\ Done(p) /\ Done(q) /\ h[p].op = "product" /\ h[q].op = "product"
       /\ h[p].expVer # NoVer /\ h[p].expVer = h[q].expVer)
    => ~(h[p].wrote /\ h[q].wrote)

\* C10: after a delete_* that reported success for a row whose product
\* exists, the row is gone.
C10_DeletionCase ==
  \A p \in Procs :
    (Done(p) /\ h[p].op = "delete" /\ h[p].res = "ok" /\ h[p].pid # NoProd)
    => db.rows[h[p].rowId].kind = "none"

\* C11: when a delete_* of a row whose product has been deleted finishes,
\* unless the store was busy, it reports success, the row is gone and no
\* product's stock or version has changed.
C11_DeleteMissingTarget ==
  [][\A p \in Procs :
       (h[p].op = "delete" /\ h[p].pc \in {"write", "commit"}
          /\ h[p].pid = NoProd /\ ~db.present[h[p].rowProd]
          /\ h'[p].pc = "done" /\ h'[p].res # "busy")
       => /\ h'[p].res = "ok"
          /\ db'.rows[h[p].rowId].kind = "none"
          /\ db'.stock = db.stock /\ db'.version = db.version]_vars
\* C12: the connections held by callers plus those in the idle queue never
\* number more than max_connections.
C12_SlotBound == Len(pool) + Cardinality(Holders) <= MaxConnections

\* C13: no connection is owned by two threads, none is owned and queued, and
\* none is queued twice.
C13_NoDoubleCheckout ==
  /\ \A t, u \in Holders : t # u => th[t].conn # th[u].conn
  /\ \A t \in Holders : th[t].conn \notin Queued
  /\ Cardinality(Queued) = Len(pool)

\* connection 1 is held while connection 2, taken first, is back in the queue
C13_Witness ==
  /\ pool # <<>> /\ Head(pool) = 2
  /\ \E t \in Threads : th[t].pc = "held" /\ th[t].conn = 1

\* C14: when get_connection gives its connection up, the unit of work is
\* committed exactly if the block returned and the commit succeeded, it has
\* been rolled back before the connection is probed and queued otherwise,
\* and the connection leaves its caller only through _release_connection.
C14_UnitOfWork ==
  [][\A t \in Threads :
       /\ (th[t].pc \in {"release", "probe"} /\ th'[t].pc = "idle") =>
            (th[t].txn = "committed" <=> th[t].blk = "returned")
       /\ (th[t].pc = "probe" /\ th'[t].pc = "idle") =>
            th[t].txn \in {"committed", "rolledback"}
       /\ (th[t].pc = "held" /\ th'[t].pc # "held") =>
            (th'[t].pc = "release" /\ th'[t].conn = th[t].conn)
       /\ (th[t].pc = "release" /\ th'[t].pc # "release") =>
            th'[t].pc \in {"probe", "idle"}]_vars

\* a unit of work whose commit raised reaches the probe rolled back
C14_Witness ==
  \E t \in Threads :
    th[t].pc = "probe" /\ th[t].blk = "commitraised" /\ th[t].txn = "rolledback"

\* C15: every way out of _release_connection lowers _active_connections by 1.
C15_ReleaseDecrements ==
  [][\A t \in Threads :
       (th[t].pc \in {"release", "probe"} /\ th'[t].pc = "idle")
       => active' = active - 1]_vars

\* C16: a connection whose probe failed in a release is neither queued nor
\* owned by any thread afterwards.
C16_ProbeFailedNeverReused ==
  /\ probeFailed \cap Queued = {}
  /\ \A t \in Holders : th[t].conn \notin probeFailed

\* after a failed probe the pool still serves a caller from its queue
C16_Witness ==
  /\ probeFailed # {}
  /\ pool # <<>>
  /\ \E t \in Threads : th[t].pc = "held"

\* C17: a ConnectionTimeoutError is raised only after TimeoutPolls waits, a
\* poll round that ends without a connection leaves the queue, the count
\* and the creations as they were, and every thread inside
\* _acquire_connection eventually holds a connection or has timed out.
C17_AcquireTerminates ==
  /\ [][\A t \in Threads :
          /\ (th[t].pc = "empty" /\ th'[t].pc = "idle") =>
               (th'[t].res = "timeout" /\ th[t].waits >= TimeoutPolls)
          /\ (th[t].pc \in {"poll", "empty"} /\ th'[t].pc \in {"poll", "empty", "idle"}
                /\ th'[t].pc # th[t].pc) =>
               (pool' = pool /\ active' = active /\ totalCreated' = totalCreated)]_vars
  /\ \A t \in Threads :
       (th[t].pc \in {"poll", "got", "empty"}) ~> (th[t].pc \in {"held", "idle"})

\* a thread has been turned away after waiting while others hold the pool
C17_Witness ==
  \E t \in Threads :
    /\ th[t].res = "timeout" /\ th[t].pc = "idle"
    /\ \E u \in Threads : u # t /\ th[u].pc = "held"

\* attempts of the for loop a call has started
Attempts(r) == IF r.pc = "idle" THEN 0 ELSE r.attempt + 1

\* C18: execute_with_retry runs the statement at most retry_attempts times;
\* an attempt that succeeds ends the call with that attempt's result and
\* nothing runs after it; a call whose every attempt met "database is locked"
\* raises DatabaseBusyError after exactly retry_attempts attempts.
C18_BoundedRetry ==
  /\ [](\A c \in Callers :
       LET r == rt[c] IN
         /\ r.runs <= r.n
         /\ Attempts(r) <= r.n
         /\ r.runs <= Attempts(r)
         /\ r.last = "ok" =>
              /\ r.pc = "done"
              /\ r.res = (IF r.sel THEN "rows" ELSE "rowcount")
              /\ r.busy = r.attempt
         /\ (r.pc = "done" /\ r.busy = Attempts(r)) =>
              /\ r.res = "busy"
              /\ Attempts(r) = r.n
              /\ r.runs = r.n
         /\ r.res = "busy" => r.busy = r.n)
  /\ [][\A c \in Callers : rt[c].pc = "done" => rt'[c] = rt[c]]_vars

C18_Witness ==
  /\ \E c \in Callers :
       /\ rt[c].pc = "done" /\ rt[c].res = "busy"
       /\ rt[c].n = MaxAttempts /\ rt[c].runs = MaxAttempts
  /\ \E c \in Callers :
       /\ rt[c].pc = "done" /\ rt[c].res = "rowcount"
       /\ rt[c].busy = 1 /\ rt[c].runs = 2 /\ rt[c].n = MaxAttempts

\* failures execute_with_retry meets in "except Exception"
NonBusy == OtherFailures \cup {"timeout"}

\* C19: an attempt of execute_with_retry that fails with anything but
\* DatabaseBusyError, ConnectionTimeoutError included, ends the call with that
\* failure at once: no sleep follows, the statement is not executed again and
\* the call does nothing further.
C19_OtherFailuresPropagate ==
  [][\A c \in Callers :
       /\ (rt'[c].last \in NonBusy /\ rt'[c] # rt[c]) =>
            /\ rt[c].pc \in {"acquire", "execute", "commit"}
            /\ rt'[c].pc = "done"
            /\ rt'[c].res = rt'[c].last
            /\ rt'[c].sleeps = rt[c].sleeps
            /\ rt'[c].busy = rt[c].busy
            /\ rt'[c].runs = rt[c].runs + (IF rt[c].pc = "execute" THEN 1 ELSE 0)
            /\ retryCount' = retryCount
       /\ (rt[c].pc = "done" /\ rt[c].res \in NonBusy) => rt'[c] = rt[c]]_vars

C19_Witness ==
  /\ \E c \in Callers :
       /\ rt[c].pc = "done" /\ rt[c].res = "timeout"
       /\ rt[c].attempt = 1 /\ rt[c].sleeps = 1 /\ rt[c].runs = 1
  /\ \E c \in Callers :
       /\ rt[c].pc = "done" /\ rt[c].res = "error"
       /\ rt[c].attempt = 0 /\ rt[c].sleeps = 0 /\ rt[c].n = MaxAttempts

\* C20: when a write statement of a ledger request (create, update or delete
\* of a purchase, sale or return) meets "database is locked", the request
\* ends with the busy response (HTTP 503) and the committed rows, stocks and
\* versions are what they were.
C20_BusyMeansStoreBusy ==
  [][\A p \in Procs :
       (/\ h[p].op \in {"create", "update", "delete"}
        /\ h[p].pc = "write"
        /\ lock # 0
        /\ TxBody(h[p], db, totalChanges[h[p].conn]).dml
        /\ h'[p].pc = "done")
       => (h'[p].res = "busy" /\ db' = db)]_vars

\* change of the target product's stock that request r asks for
Delta(r) ==
  CASE r.op = "create" -> Sign(r.kind) * r.argQty
    [] r.op = "update" -> IF ProductChanged(r) THEN Sign(r.kind) * NewQuantity(r)
                          ELSE QuantityDiff(r)
    [] r.op = "stock" -> r.argQty
    [] OTHER -> 0

\* the step of handler p ends the request with the insufficient-stock
\* rejection and commits nothing
Rejected(p) ==
  h'[p].pc = "done" /\ h'[p].res = "insufficient" /\ db' = db

\* a step of handler p that reads a product whose stock the request's delta
\* would take below zero rejects the request (update_purchase and
\* update_return with a new product do so in their check of the old product's
\* stock, which follows); versionFirst: an update_product_stock whose client
\* version is not the product's is left out
InsufficientRule(p, versionFirst) ==
  LET r == h[p]
      found == ProdByName(db, TargetProd(r), r.sc)
      old == ProdByName(db, r.rowProd, r.sc)
  IN /\ (/\ r.pc = "readProd"
         /\ r.op \in {"create", "update", "stock"}
         /\ found # NoProd
         /\ (versionFirst /\ r.op = "stock") => r.expVer = db.version[found]
         /\ db.stock[found] + Delta(r) < 0
         /\ h'[p] # r)
        => (Rejected(p) \/ h'[p].pc = "readOld")
     /\ (/\ r.pc = "readOld"
         /\ \/ r.pstock + Delta(r) < 0
            \/ old # NoProd /\ db.stock[old] - Sign(r.kind) * r.rowQty < 0
         /\ h'[p] # r)
        => Rejected(p)
     /\ (r.pc # "done" /\ h'[p].pc = "done" /\ h'[p].res = "insufficient")
        => db' = db

\* C21: a create or update of a purchase, sale or return, or an
\* update_product_stock, that finds a product at a stock which its delta
\* would take below zero ends with the insufficient-stock rejection, and a
\* request that ends so leaves every product and ledger row as it was.
C21_InsufficientRejected ==
  [][\A p \in Procs : InsufficientRule(p, FALSE)]_vars

\* the same rule for requests that pass update_product_stock's comparison
\* of versions, which comes before the stock check
InsufficientAfterVersion ==
  [][\A p \in Procs : InsufficientRule(p, TRUE)]_vars

\* the step of handler p ends the request with the not-found rejection and
\* commits nothing
NotFound(p) ==
  h'[p].pc = "done" /\ h'[p].res = "notfound" /\ db' = db

\* C22: a create or update of a purchase, sale or return that looks up a
\* product it has to change and finds it deleted is rejected as not found
\* and changes nothing: the named product of a create, the row's product of
\* a quantity-only update, the new and the old product of a re-association.
C22_MissingProductRejected ==
  [][\A p \in Procs :
       LET r == h[p] IN
         (/\ r.op \in {"create", "update"}
          /\ h'[p] # r
          /\ \/ r.pc = "readProd" /\ ~db.present[TargetProd(r)]
             \/ /\ r.pc \in {"readOld", "write"}
                /\ r.op = "update"
                /\ ProductChanged(r)
                /\ ~db.present[r.rowProd])
         => NotFound(p)]_vars

\* the product handler p has read is as p read it: no other request has
\* committed a change to it since, and none holds the write lock
Unrivalled(p) ==
  /\ h[p].pid \in Prods
  /\ db.present[h[p].pid]
  /\ db.stock[h[p].pid] = h[p].pstock
  /\ db.version[h[p].pid] = h[p].pver
  /\ lock \in {0, p}

\* C23: update_product_stock that finds the product at (q, v), carries the
\* expected version v and a delta d with q + d >= 0, and meets no concurrent
\* writer, goes through its UPDATE to the commit, reports success and leaves
\* the product at exactly (q + d, v + 1).
C23_SimpleMutation ==
  [][\A p \in Procs :
       LET r == h[p] IN
         /\ (/\ r.op = "stock" /\ r.pc = "readProd"
             /\ ProdByName(db, r.argProd, r.sc) # NoProd
             /\ r.expVer = db.version[r.argProd]
             /\ db.stock[r.argProd] + r.argQty >= 0
             /\ h'[p] # r)
            => (h'[p].pc = "write" /\ h'[p].pstock = db.stock[r.argProd]
                  /\ h'[p].pver = r.expVer)
         /\ (r.op = "stock" /\ r.pc = "write" /\ Unrivalled(p) /\ h'[p] # r)
            => h'[p].pc = "commit"
         /\ (r.op = "stock" /\ r.pc = "commit" /\ Unrivalled(p) /\ h'[p] # r)
            => /\ h'[p].pc = "done" /\ h'[p].res = "ok"
               /\ db'.stock[r.pid] = r.pstock + r.argQty
               /\ db'.version[r.pid] = r.pver + 1]_vars

\* update_product_stock has taken a product from (q, v) to (q - 1, v + 1)
C23_Witness ==
  \E p \in Procs :
    /\ Done(p) /\ h[p].op = "stock" /\ h[p].res = "ok" /\ h[p].wrote
    /\ h[p].expVer = h[p].pver
    /\ db.version[h[p].pid] = h[p].pver + 1
    /\ db.stock[h[p].pid] = 0

\* C24: when an update that moves a ledger row from product A to product B
\* commits, both products being stored and nothing having been committed
\* since the request read the row and B, then A's stock has the row's old
\* effect reversed, B's stock has the new effect applied, both versions have
\* gone up by exactly 1 and the row names B with the new quantity.
C24_Reassociation ==
  [][\A p \in Procs :
       LET r == h[p] IN
         (/\ r.op = "update" /\ r.pc = "commit" /\ ProductChanged(r)
          /\ h'[p] # r
          /\ db.present[r.rowProd] /\ Unrivalled(p)
          /\ db.rows[r.rowId].kind = r.kind
          /\ db.rows[r.rowId].prod = r.rowProd
          /\ db.rows[r.rowId].qty = r.rowQty)
         => /\ h'[p].res = "ok"
            /\ db'.stock[r.rowProd] = db.stock[r.rowProd] - Sign(r.kind) * r.rowQty
            /\ db'.stock[r.argProd] = db.stock[r.argProd] + Sign(r.kind) * NewQuantity(r)
            /\ db'.version[r.rowProd] = db.version[r.rowProd] + 1
            /\ db'.version[r.argProd] = db.version[r.argProd] + 1
            /\ db'.rows[r.rowId].prod = r.argProd
            /\ db'.rows[r.rowId].qty = NewQuantity(r)
            /\ db'.rows[r.rowId].kind = r.kind]_vars

\* C25: a create, update or delete of a purchase, sale or return whose
\* product is, when the request writes, exactly as the request read it (no
\* other writer has committed a change to it) does not end in a version
\* conflict, whoever created the product and whatever the request's scope.
C25_NoSpuriousConflict ==
  [][\A p \in Procs :
       (/\ h[p].op \in {"create", "update", "delete"}
        /\ h[p].pc = "write"
        /\ Unrivalled(p)
        /\ h'[p] # h[p])
       => h'[p].res # "conflict"]_vars

\* a store error reporting busy: sqlite3.OperationalError "database is locked"
StoreBusy(e) == e \in Exceptions /\ e.cls = "OperationalError" /\ e.locked

C27_BackoffSchedule ==
  /\ [][\A c \in Callers :
         rt'[c].sleeps # rt[c].sleeps =>
           /\ rt[c].pc = "sleep" /\ rt[c].last = "busy"
           /\ rt[c].attempt = rt[c].sleeps
           /\ rt[c].attempt < rt[c].n - 1
           /\ rt'[c].sleeps = rt[c].sleeps + 1
           /\ rt'[c].slept - rt[c].slept = 2 ^ rt[c].attempt
           /\ rt'[c].attempt = rt[c].attempt + 1]_vars
  /\ [](\A c \in Callers :
         /\ rt[c].pc = "sleep" => (rt[c].last = "busy" /\ rt[c].attempt < rt[c].n - 1)
         /\ rt[c].slept = 2 ^ rt[c].sleeps - 1
         /\ rt[c].res = "busy" =>
              (rt[c].pc = "done" /\ rt[c].sleeps = rt[c].n - 1))

\* four busy attempts: sleeps of 1, 2 and 4 units, then DatabaseBusyError
C27_Witness ==
  \E c \in Callers :
    /\ rt[c].pc = "done" /\ rt[c].res = "busy" /\ rt[c].n = 4
    /\ rt[c].sleeps = 3 /\ rt[c].slept = 7

\* C28: with no more workspace-scoped ledger requests in flight than the pool
\* has slots, no request's _acquire_connection runs into
\* ConnectionTimeoutError and no request fails for lack of a slot.
C28_NoHoldAndWait ==
  \A t \in Requests : th[t].res # "timeout" /\ nested[t].res # "timeout"

\* C29: no connection in the idle queue has an open transaction: what a
\* holder left uncommitted is rolled back before the connection is queued, and
\* the connection a later holder takes from the queue carries nothing
\* uncommitted.
C29_IdleSlotsClean ==
  /\ [](Queued \cap txnOpen = {})
  /\ [][\A t \in Threads :
         (th[t].pc = "poll" /\ th'[t].pc = "got") => th'[t].conn \notin txnOpen]_vars

\* a connection whose holder was cancelled with its transaction open, rolled
\* back by _release_connection and about to be queued
C29_Witness ==
  \E t \in Threads :
    /\ th[t].pc = "probe" /\ th[t].exc = AbortException
    /\ th[t].txn = "rolledback" /\ th[t].conn \notin txnOpen
    /\ Len(pool) < MaxConnections

\* C30: execute_with_retry returns normally only with the result of a
\* statement that ran and was committed; every other call, whatever
\* retry_attempts is, ends in an error.
C30_ReturnMeansExecuted ==
  \A c \in Callers :
    rt[c].pc = "done" =>
      \/ /\ rt[c].res \in {"rows", "rowcount"}
         /\ rt[c].last = "ok" /\ rt[c].runs >= 1
      \/ rt[c].res \in {"busy", "timeout"} \cup OtherFailures

====
